---- MODULE Spec2Model ----
(***************************************************************************)
(* porward: the staged PortForwarderBuilder workflow (porwarder.rs), the   *)
(* TUIStringListSelector redraw/input loop (selector.rs) and the driver    *)
(* (main.rs).                                                              *)
(*                                                                         *)
(* Strings are TLA+ strings, format!/to_string are modelled by \o.         *)
(* Option<T> is a sequence of length 0 (None) or 1 (Some).                 *)
(* One iteration of the selector loop (draw, read, interpret) is one step. *)
(***************************************************************************)
EXTENDS Integers, Sequences, FiniteSets, TLC

VARIABLES
    selector,   \* which StringListSelector the builder was given
    checks,     \* outcome of the two version checks of setup, "none" if not run
    pc,         \* stage marker of the builder / position of run()
    selPc,      \* position of the current stage: "idle", "loop", "returned"
    pf,         \* the PortForwarder record
    provided,   \* the stage's provider result (instances / destinations)
    options,    \* select's options argument
    index,      \* select's local index
    selected,   \* select's local selected
    ret,        \* value returned by select
    region,     \* what the inline viewport shows: "blank" or "list"
    termMode,   \* "viewport" (ratatui::init_with_options) or "normal" (restore)
    drawn,      \* index highlighted by the last list draw, as Option
    draws,      \* list draws made in the current select call
    reads,      \* events read in the current select call
    downs,      \* Down presses in the current select call
    ups,        \* Up presses in the current select call
    lastEvent,  \* last event read in the current select call
    ioFailed,   \* a draw or read failed in the current select call
    inRange,    \* every select so far returned an index inside the offered list
    stages,     \* stages that have succeeded, in order
    error,      \* error reported by main, "none" if none
    printed,    \* run() printed the command line
    launched    \* run() spawned the tunnel subprocess

vars == <<selector, checks, pc, selPc, pf, provided, options, index, selected, ret,
          region, termMode, drawn, draws, reads, downs, ups, lastEvent,
          ioFailed, inRange, stages, error, printed, launched>>

selVars == <<options, index, selected, ret, region, drawn, draws, reads,
             downs, ups, lastEvent, ioFailed>>

----------------------------------------------------------------------------
(* Bounds *)

MaxOptions == 2     \* longest list a provider returns
MaxEvents == 5      \* Up/Down/ignored events read in one select call
MaxScriptIdx == 4   \* largest index a scripted selector returns

----------------------------------------------------------------------------
(* Option and Vec helpers *)

None == <<>>
Some(v) == <<v>>
IsSome(o) == o # None
Unwrap(o) == o[1]

\* Vec::get / slice::get with a 0-based index
Get(v, idx) == IF idx < Len(v) THEN Some(v[idx + 1]) ELSE None

Prefixes(v) == {SubSeq(v, 1, n) : n \in 0..(IF MaxOptions < Len(v) THEN MaxOptions ELSE Len(v))}

----------------------------------------------------------------------------
(* Service *)

ServiceKinds == {"ApplicationLoadBalancer", "Postgresql", "Redis", "Valkey"}

ServiceToString(s) ==
    CASE s = "ApplicationLoadBalancer" -> "ApplicationLoadBalancer"
      [] s = "Postgresql" -> "Postgresql"
      [] s = "Redis" -> "Redis"
      [] s = "Valkey" -> "Valkey"

default_port(s) ==
    CASE s = "ApplicationLoadBalancer" -> 443
      [] s = "Postgresql" -> 5432
      [] s = "Redis" -> 6379
      [] s = "Valkey" -> 6379

U16(n) == n % 65536

Digit(d) == <<"0", "1", "2", "3", "4", "5", "6", "7", "8", "9">>[d + 1]

RECURSIVE to_string(_)
to_string(n) == IF n < 10 THEN Digit(n) ELSE to_string(n \div 10) \o Digit(n % 10)

HostPort(port) == to_string(port)

\* every port shifted
LocalPortShiftAll(port) == to_string(U16(port + 1000))

LocalPort(port) == IF port < 1000 THEN to_string(U16(port + 1000)) ELSE to_string(port)

\* the menu built in the order the enum declares its variants
servicesEnumOrder == <<"ApplicationLoadBalancer", "Postgresql", "Redis", "Valkey">>

services == <<"ApplicationLoadBalancer", "Redis", "Valkey", "Postgresql">>
ServiceLabels == [i \in 1..Len(services) |-> ServiceToString(services[i])]

----------------------------------------------------------------------------
(* Provider results *)

AllProfiles == <<"dev", "prod", "stage">>
ProfileLists == Prefixes(AllProfiles)

\* (instance id, Name tag value or "")
AllInstances == <<<<"i-1", "web">>, <<"i-2", "">>, <<"i-3", "">>>>
InstanceLists == Prefixes(AllInstances)
InstanceLabel(inst) == inst[2] \o " (" \o inst[1] \o ")"
InstanceLabels(instances) == [i \in 1..Len(instances) |-> InstanceLabel(instances[i])]

\* (dns name, load balancer name or dns name)
AllLoadBalancers == <<<<"a.elb", "lb">>, <<"b.elb", "lb">>, <<"c.elb", "c.elb">>>>
LoadBalancerLists == Prefixes(AllLoadBalancers)

\* (endpoint, endpoint)
AllClusterEndpoints == <<<<"a.rds", "a.rds">>, <<"b.rds", "b.rds">>, <<"c.rds", "c.rds">>>>
ClusterEndpointLists == Prefixes(AllClusterEndpoints)

redis_servers == <<>>
valkey_servers == <<>>

DestinationTitle(d) == d[2]
DestinationTitles(destinations) ==
    [i \in 1..Len(destinations) |-> DestinationTitle(destinations[i])]

----------------------------------------------------------------------------
(* Construction *)

NewPortForwarder ==
    [profile_name |-> None, instance_id |-> None, service |-> None,
     host_name |-> None, host_port |-> None, local_port |-> None,
     read_only |-> TRUE]

InitWith(kinds) ==
    /\ selector \in kinds
    /\ checks = [aws |-> "none", plugin |-> "none"]
    /\ pc = "Start"
    /\ selPc = "idle"
    /\ pf = NewPortForwarder
    /\ provided = <<>>
    /\ options = <<>>
    /\ index = 0
    /\ selected = None
    /\ ret = None
    /\ region = "blank"
    /\ termMode = "viewport"
    /\ drawn = None
    /\ draws = 0
    /\ reads = 0
    /\ downs = 0
    /\ ups = 0
    /\ lastEvent = "none"
    /\ ioFailed = FALSE
    /\ inRange = TRUE
    /\ stages = <<>>
    /\ error = "none"
    /\ printed = FALSE
    /\ launched = FALSE

\* main.rs: the builder is given the TUI selector
Init == InitWith({"TUI"})

\* the builder given any implementation of the StringListSelector trait
InitBuilder == InitWith({"TUI", "Scripted"})

----------------------------------------------------------------------------
(* Error propagation to main: restore the terminal, print the error *)

\* the error is printed with the terminal left as it is
AbortNoRestore(err) ==
    /\ pc' = "Aborted"
    /\ selPc' = "idle"
    /\ error' = err
    /\ UNCHANGED <<termMode, stages>>

\* the error is reported and the stage is run again
AbortRetry(err) ==
    /\ selPc' = "idle"
    /\ error' = err
    /\ termMode' = "normal"
    /\ UNCHANGED <<pc, stages>>

Abort(err) ==
    /\ pc' = "Aborted"
    /\ selPc' = "idle"
    /\ error' = err
    /\ termMode' = "normal"
    /\ UNCHANGED stages

----------------------------------------------------------------------------
(* TUIStringListSelector::select *)

Events == {"Enter", "Up", "Down", "Esc", "OtherKey", "Release", "NonKey"}

\* the modulo of line 64 left out
UpIndexNoWrap(i, len) == i + (len - 1)

UpIndex(i, len) == (i + (len - 1)) % len

\* Down stops at the last item
DownIndexClamp(i, len) == IF i + 1 < len THEN i + 1 ELSE i

DownIndex(i, len) == (i + 1) % len

\* the test of key.kind left out: a release moves the focus like a press
NextIndexAnyKind(ev, i, len) ==
    CASE ev = "Up" -> UpIndex(i, len)
      [] ev \in {"Down", "Release"} -> DownIndex(i, len)
      [] OTHER -> i

\* the value of index after the match on the event that was read
NextIndex(ev, i, len) ==
    CASE ev = "Up" -> UpIndex(i, len)
      [] ev = "Down" -> DownIndex(i, len)
      [] OTHER -> i

\* Enter takes the first option
NextSelectedFirst(ev, opts, i, sel) ==
    IF ev = "Enter" THEN Get(opts, 0) ELSE sel

\* Down falls through to Enter
NextSelectedOnDown(ev, opts, i, sel) ==
    IF ev \in {"Enter", "Down"} THEN Get(opts, i) ELSE sel

\* the value of selected after the match on the event that was read
NextSelected(ev, opts, i, sel) ==
    IF ev = "Enter" THEN Get(opts, i) ELSE sel

\* the closing draw left out
ClearRegionSkipped(ok) == region

\* the closing draw of an empty Block over the whole area
ClearRegion(ok) == IF ok THEN "blank" ELSE region

\* the empty-list test left out
SelectTUINoGuard(opts) ==
    /\ options' = opts
    /\ index' = 0
    /\ selected' = None
    /\ ret' = None
    /\ selPc' = "loop"
    /\ draws' = 0
    /\ reads' = 0
    /\ downs' = 0
    /\ ups' = 0
    /\ lastEvent' = "none"
    /\ ioFailed' = FALSE
    /\ UNCHANGED <<region, drawn>>

\* select entered: the empty-list return, or the locals before the loop
SelectTUI(opts) ==
    /\ options' = opts
    /\ index' = 0
    /\ selected' = None
    /\ ret' = None
    /\ selPc' = IF Len(opts) = 0 THEN "returned" ELSE "loop"
    /\ draws' = 0
    /\ reads' = 0
    /\ downs' = 0
    /\ ups' = 0
    /\ lastEvent' = "none"
    /\ ioFailed' = FALSE
    /\ UNCHANGED <<region, drawn>>

\* what an arbitrary implementation of the trait may return
ScriptedResults(opts) ==
    {None} \cup
    UNION {{Some(<<i, l>>) : l \in {"other"} \cup {opts[j] : j \in {i + 1} \cap 1..Len(opts)}}
           : i \in 0..MaxScriptIdx}

SelectScripted(opts) ==
    /\ options' = opts
    /\ \E r \in ScriptedResults(opts) : ret' = r
    /\ selPc' = "returned"
    /\ index' = 0
    /\ selected' = None
    /\ draws' = 0
    /\ reads' = 0
    /\ downs' = 0
    /\ ups' = 0
    /\ lastEvent' = "none"
    /\ ioFailed' = FALSE
    /\ UNCHANGED <<region, drawn>>

SelectCall(opts) ==
    IF selector = "TUI" THEN SelectTUI(opts) ELSE SelectScripted(opts)

\* the draw of the list fails: .ok()? returns None
DrawFails ==
    /\ ret' = None
    /\ selPc' = "returned"
    /\ ioFailed' = TRUE
    /\ UNCHANGED <<options, index, selected, region, drawn, draws, reads,
                   downs, ups, lastEvent>>

\* the list is drawn, event::read fails: .ok()? returns None
ReadFails ==
    /\ region' = "list"
    /\ drawn' = Some(index)
    /\ draws' = draws + 1
    /\ ret' = None
    /\ selPc' = "returned"
    /\ ioFailed' = TRUE
    /\ UNCHANGED <<options, index, selected, reads, downs, ups, lastEvent>>

\* Esc: return None from inside the loop
OnEsc ==
    /\ region' = "list"
    /\ ret' = None
    /\ selPc' = "returned"
    /\ UNCHANGED <<index, selected, ioFailed>>

\* any other event: the match, the loop test and, when the loop ends, the
\* closing draw and the return
OnEvent(ev, clearOk) ==
    LET i == NextIndex(ev, index, Len(options))
        sel == NextSelected(ev, options, index, selected)
    IN /\ index' = i
       /\ selected' = sel
       /\ IF IsSome(sel)
          THEN /\ region' = ClearRegion(clearOk)
               /\ ret' = IF clearOk THEN Some(<<i, Unwrap(sel)>>) ELSE None
               /\ ioFailed' = ~clearOk
               /\ selPc' = "returned"
          ELSE /\ region' = "list"
               /\ ret' = None
               /\ selPc' = "loop"
               /\ UNCHANGED ioFailed

\* one iteration of the loop: draw, read, interpret
SelectStep ==
    /\ selPc = "loop"
    /\ UNCHANGED <<selector, checks, pc, pf, provided, termMode, inRange, stages,
                   error, printed, launched>>
    /\ \/ DrawFails
       \/ ReadFails
       \/ \E ev \in Events, clearOk \in BOOLEAN :
            /\ ev \in {"Enter", "Esc"} \/ reads < MaxEvents
            /\ ev = "Enter" \/ clearOk
            /\ drawn' = Some(index)
            /\ draws' = draws + 1
            /\ reads' = reads + 1
            /\ downs' = IF ev = "Down" THEN downs + 1 ELSE downs
            /\ ups' = IF ev = "Up" THEN ups + 1 ELSE ups
            /\ lastEvent' = ev
            /\ UNCHANGED options
            /\ IF ev = "Esc" THEN OnEsc ELSE OnEvent(ev, clearOk)

\* select has returned to the stage: its locals are gone
DropLocals ==
    /\ options' = <<>>
    /\ index' = 0
    /\ selected' = None
    /\ ret' = None
    /\ draws' = 0
    /\ reads' = 0
    /\ downs' = 0
    /\ ups' = 0
    /\ lastEvent' = "none"
    /\ ioFailed' = FALSE
    /\ UNCHANGED <<region, drawn>>

\* the stage advances: the next typestate, same record and selector
Advance(next, name) ==
    /\ pc' = next
    /\ selPc' = "idle"
    /\ stages' = Append(stages, name)
    /\ UNCHANGED <<error, termMode>>

----------------------------------------------------------------------------
(* PortForwarderBuilder *)

ToolOutcomes == {"ok", "nonzero", "missing"}

Setup ==
    /\ pc = "Start"
    /\ \E aws \in ToolOutcomes, plugin \in ToolOutcomes :
         IF aws = "missing"
         THEN /\ checks' = [aws |-> aws, plugin |-> "none"]
              /\ Abort("aws cli is not installed")
         ELSE /\ checks' = [aws |-> aws, plugin |-> plugin]
              /\ IF plugin = "missing"
                 THEN Abort("session-manager-plugin is not installed")
                 ELSE Advance("Profile", "setup")
    /\ UNCHANGED <<selector, pf, provided, selVars, inRange, printed, launched>>

\* .map(|(id, _)| id.clone()) and .map(|(host_name, _)| host_name.to_owned())
InstanceIdOf(o) == IF o = None THEN None ELSE Some(Unwrap(o)[1])
HostNameOf(o) == IF o = None THEN None ELSE Some(Unwrap(o)[1])

\* the three maps over the Option of the service
DefaultPortOf(o) == IF o = None THEN None ELSE Some(default_port(Unwrap(o)))
HostPortOf(o) == IF o = None THEN None ELSE Some(HostPort(Unwrap(o)))
LocalPortOf(o) == IF o = None THEN None ELSE Some(LocalPort(Unwrap(o)))

StoreProfile(r) == [pf EXCEPT !.profile_name = Some(r[2])]

\* a 1-based index into the list
StoreInstanceOffByOne(instances, r) ==
    [pf EXCEPT !.instance_id = InstanceIdOf(Get(instances, r[1] + 1))]

StoreInstance(instances, r) ==
    [pf EXCEPT !.instance_id = InstanceIdOf(Get(instances, r[1]))]

\* local_port left as it was
StoreServiceNoLocal(r) ==
    LET svc == Get(services, r[1])
        port == DefaultPortOf(svc)
    IN [pf EXCEPT !.service = svc,
                  !.host_port = HostPortOf(port)]

StoreService(r) ==
    LET svc == Get(services, r[1])
        port == DefaultPortOf(svc)
    IN [pf EXCEPT !.service = svc,
                  !.host_port = HostPortOf(port),
                  !.local_port = LocalPortOf(port)]

\* the host looked up by the returned label: the first option with that title
StoreHostByLabel(destinations, r) ==
    LET hits == {i \in 1..Len(destinations) : destinations[i][2] = r[2]}
    IN [pf EXCEPT !.host_name =
            IF hits = {} THEN None
            ELSE Some(destinations[CHOOSE i \in hits : \A j \in hits : i <= j][1])]

\* the record rebuilt instead of updated
StoreHostFresh(destinations, r) ==
    [NewPortForwarder EXCEPT !.host_name = HostNameOf(Get(destinations, r[1]))]

StoreHost(destinations, r) ==
    [pf EXCEPT !.host_name = HostNameOf(Get(destinations, r[1]))]

\* the provider returned a list and the selector is called with its labels
Offer(list, labels) ==
    /\ provided' = list
    /\ SelectCall(labels)
    /\ UNCHANGED <<pc, error, termMode, stages>>

\* the stage function returns an error before the selector is called
Fail(err) ==
    /\ Abort(err)
    /\ UNCHANGED <<provided, selVars>>

\* the selector's result reaches the stage: ? on an error, else the store
Return(next, name, record) ==
    /\ selPc = "returned"
    /\ IF ret = None
       THEN /\ Abort("canceled")
            /\ UNCHANGED <<pf, inRange>>
       ELSE /\ pf' = record
            /\ inRange' = (inRange /\ Unwrap(ret)[1] < Len(options))
            /\ Advance(next, name)
    /\ provided' = <<>>
    /\ DropLocals
    /\ UNCHANGED <<selector, checks, printed, launched>>

ProfileCall ==
    /\ pc = "Profile" /\ selPc = "idle"
    /\ \/ Fail("provider failure")
       \/ \E profiles \in ProfileLists : Offer(profiles, profiles)
    /\ UNCHANGED <<selector, checks, pf, inRange, printed, launched>>

ProfileReturn ==
    /\ pc = "Profile"
    /\ Return("Instance", "profile", StoreProfile(Unwrap(ret)))

InstanceCall ==
    /\ pc = "Instance" /\ selPc = "idle"
    /\ IF pf.profile_name = None
       THEN Fail("profile name is not set")
       ELSE \/ Fail("provider failure")
            \/ \E instances \in InstanceLists :
                 Offer(instances, InstanceLabels(instances))
    /\ UNCHANGED <<selector, checks, pf, inRange, printed, launched>>

InstanceReturn ==
    /\ pc = "Instance"
    /\ Return("DestinationType", "instance", StoreInstance(provided, Unwrap(ret)))

DestinationTypeCall ==
    /\ pc = "DestinationType" /\ selPc = "idle"
    /\ Offer(<<>>, ServiceLabels)
    /\ UNCHANGED <<selector, checks, pf, inRange, printed, launched>>

DestinationTypeReturn ==
    /\ pc = "DestinationType"
    /\ Return("Destination", "destination_type", StoreService(Unwrap(ret)))

\* the cache services answered from the cluster endpoints
DestinationListsCache(svc) ==
    IF svc = "ApplicationLoadBalancer" THEN LoadBalancerLists ELSE ClusterEndpointLists

\* the lists the service's lookup may return
DestinationLists(svc) ==
    CASE svc = "ApplicationLoadBalancer" -> LoadBalancerLists
      [] svc = "Postgresql" -> ClusterEndpointLists
      [] svc = "Redis" -> {redis_servers}
      [] svc = "Valkey" -> {valkey_servers}

\* the lookups that go to AWS: they need the profile and may fail
Remote(svc) == svc \in {"ApplicationLoadBalancer", "Postgresql"}

DestinationCall ==
    /\ pc = "Destination" /\ selPc = "idle"
    /\ IF pf.service = None
       THEN Fail("destination type is empty")
       ELSE LET svc == Unwrap(pf.service)
            IN IF Remote(svc) /\ pf.profile_name = None
               THEN Fail("profile name is not set")
               ELSE \/ Remote(svc) /\ Fail("provider failure")
                    \/ \E destinations \in DestinationLists(svc) :
                         Offer(destinations, DestinationTitles(destinations))
    /\ UNCHANGED <<selector, checks, pf, inRange, printed, launched>>

DestinationReturn ==
    /\ pc = "Destination"
    /\ Return("Ready", "destination", StoreHost(provided, Unwrap(ret)))

Build ==
    /\ pc = "Ready"
    /\ Advance("Built", "build")
    /\ UNCHANGED <<selector, checks, pf, provided, selVars, inRange, printed, launched>>

----------------------------------------------------------------------------
(* PortForwarder::run *)

\* the test of instance_id left out
FirstUnsetNoInstance(r) ==
    CASE r.profile_name = None -> "profile name is not set"
      [] r.host_name = None -> "host name is not set"
      [] r.host_port = None -> "host port is not set"
      [] r.local_port = None -> "local port is not set"
      [] OTHER -> "none"

\* the first field run finds unset, in the order it reads them
FirstUnset(r) ==
    CASE r.profile_name = None -> "profile name is not set"
      [] r.instance_id = None -> "instance id is not set"
      [] r.host_name = None -> "host name is not set"
      [] r.host_port = None -> "host port is not set"
      [] r.local_port = None -> "local port is not set"
      [] OTHER -> "none"

Run ==
    /\ pc = "Built"
    /\ IF FirstUnset(pf) # "none"
       THEN /\ Abort(FirstUnset(pf))
            /\ UNCHANGED <<printed, launched>>
       ELSE /\ printed' = TRUE
            /\ \E spawnOk \in BOOLEAN :
                 IF spawnOk
                 THEN /\ launched' = TRUE
                      /\ pc' = "Tunnel"
                      /\ termMode' = "normal"
                      /\ UNCHANGED <<selPc, error, stages>>
                 ELSE /\ Abort("spawn failed")
                      /\ UNCHANGED launched
    /\ UNCHANGED <<selector, checks, pf, provided, selVars, inRange>>

\* child.wait(), then main's restore
Wait ==
    /\ pc = "Tunnel"
    /\ \E waitOk \in BOOLEAN :
         IF waitOk
         THEN /\ pc' = "Done"
              /\ UNCHANGED <<selPc, error, termMode, stages>>
         ELSE Abort("wait failed")
    /\ UNCHANGED <<selector, checks, pf, provided, selVars, inRange, printed, launched>>

----------------------------------------------------------------------------

Next ==
    \/ Setup
    \/ ProfileCall
    \/ ProfileReturn
    \/ InstanceCall
    \/ InstanceReturn
    \/ DestinationTypeCall
    \/ DestinationTypeReturn
    \/ DestinationCall
    \/ DestinationReturn
    \/ SelectStep
    \/ Build
    \/ Run
    \/ Wait

\* the operator presses Enter or Escape
PressEnterOrEsc ==
    /\ SelectStep
    /\ reads' = reads + 1
    /\ lastEvent' \in {"Enter", "Esc"}

Spec == Init /\ [][Next]_vars

\* the program with an operator who, while a list is shown, eventually
\* presses Enter or Escape
SpecLive == Init /\ [][Next]_vars /\ WF_vars(PressEnterOrEsc)

SpecBuilder == InitBuilder /\ [][Next]_vars

----------------------------------------------------------------------------
(* Properties *)

Looping == selPc = "loop"
Returned == selPc = "returned"
InRange(i, v) == i \in 0..(Len(v) - 1)

AllSet(r) ==
    /\ r.profile_name # None
    /\ r.instance_id # None
    /\ r.service # None
    /\ r.host_name # None
    /\ r.host_port # None
    /\ r.local_port # None

StageOrder == <<"setup", "profile", "instance", "destination_type", "destination", "build">>

\* C1: on a non-empty list select returns cancellation or (index, label) with
\* index inside the list and label the option at that index, and the focus
\* index (the local and the one highlighted by each draw) stays inside the
\* list in every state of the loop.
SelectReturnsInRange ==
    /\ Looping => Len(options) > 0 /\ InRange(index, options)
    /\ Looping /\ drawn # None /\ draws > 0 => InRange(Unwrap(drawn), options)
    /\ Returned /\ Len(options) > 0 =>
         /\ InRange(index, options)
         /\ \/ ret = None
            \/ /\ InRange(Unwrap(ret)[1], options)
               /\ Unwrap(ret)[2] = options[Unwrap(ret)[1] + 1]

\* a selection of the last of four options, reached by wrapping with Up
SelectReturnsInRangeWitness ==
    /\ Returned
    /\ Len(options) = 4
    /\ ups = 1 /\ downs = 0
    /\ ret = Some(<<3, "Postgresql">>)

\* C2: k Down presses from index 0 leave the focus at k mod n, k Up presses
\* at (n - k mod n) mod n, and on a singleton list the focus never moves.
DownUpWrap ==
    (selector = "TUI" /\ (Looping \/ Returned) /\ Len(options) > 0) =>
        LET n == Len(options)
        IN /\ (ups = 0 /\ downs > 0) => index = downs % n
           /\ (downs = 0 /\ ups > 0) => index = (n - (ups % n)) % n
           /\ n = 1 => index = 0

\* five Up presses on four options: the focus has gone round once
DownUpWrapWitness ==
    /\ Looping
    /\ Len(options) = 4
    /\ ups = 5 /\ downs = 0
    /\ index = 3

\* C3: select on an empty list returns cancellation at once, with no draw
\* and no event read; the loop is never entered with an empty list.
EmptyListCancels ==
    selector = "TUI" =>
        /\ Looping => options # <<>>
        /\ (Returned /\ options = <<>>) => (ret = None /\ draws = 0 /\ reads = 0)

\* the profile stage offered no profile
EmptyListCancelsWitness ==
    /\ pc = "Profile"
    /\ Returned
    /\ options = <<>>
    /\ ret = None
    /\ region = "blank"

\* C4: when every selector call returned an index inside the offered list
\* and build has been reached, all six fields are populated.
AllStagesPopulateRecord ==
    (inRange /\ Len(stages) = Len(StageOrder)) => AllSet(pf)

\* a scripted selector that stayed in range, after build
AllStagesPopulateRecordWitness ==
    /\ selector = "Scripted"
    /\ pc = "Built"
    /\ inRange
    /\ stages = StageOrder
    /\ AllSet(pf)

\* C5: build fails with a field-unset error exactly when one of the six
\* fields is absent.
BuildFailsIffFieldAbsent ==
    [][pc = "Ready" => ((pc' = "Aborted") <=> ~AllSet(pf))]_vars

\* C6: after DestinationType host_port is the service's default port and
\* local_port is that port, shifted by 1000 only when it is under 1000.
PortDerivation ==
    /\ Len(stages) >= 4 => pf.service # None
    /\ pf.service = Some("ApplicationLoadBalancer") =>
         pf.host_port = Some("443") /\ pf.local_port = Some("1443")
    /\ pf.service = Some("Postgresql") =>
         pf.host_port = Some("5432") /\ pf.local_port = Some("5432")
    /\ pf.service = Some("Redis") =>
         pf.host_port = Some("6379") /\ pf.local_port = Some("6379")
    /\ pf.service = Some("Valkey") =>
         pf.host_port = Some("6379") /\ pf.local_port = Some("6379")

\* the load balancer's port 443 was shifted to 1443
PortDerivationWitness ==
    /\ pc = "Destination"
    /\ pf.service = Some("ApplicationLoadBalancer")
    /\ pf.host_port = Some("443")
    /\ pf.local_port = Some("1443")

\* C7: with Redis or Valkey chosen the Destination stage offers an empty
\* list, the selector cancels and the run aborts as canceled: host_name is
\* never set, build and the tunnel are never reached, and the five earlier
\* fields are set with both ports 6379.
CacheServiceAborts ==
    (pf.service \in {Some("Redis"), Some("Valkey")}) =>
        /\ pf.host_name = None
        /\ pc \in {"Destination", "Aborted"}
        /\ pc = "Aborted" => error = "canceled"
        /\ pc = "Destination" /\ selPc # "idle" =>
             (Returned /\ options = <<>> /\ ret = None /\ draws = 0)
        /\ ~launched /\ ~printed
        /\ Len(stages) = 4
        /\ pf.profile_name # None /\ pf.instance_id # None
        /\ pf.host_port = Some("6379") /\ pf.local_port = Some("6379")

\* profiles [dev, prod] pick 1, instances [(i-1, web)] pick 0, type pick 2
CacheServiceAbortsWitness ==
    /\ pc = "Aborted"
    /\ error = "canceled"
    /\ pf.profile_name = Some("prod")
    /\ pf.instance_id = Some("i-1")
    /\ pf.service = Some("Valkey")
    /\ pf.host_port = Some("6379")
    /\ pf.local_port = Some("6379")
    /\ pf.host_name = None

FieldNames == {"profile_name", "instance_id", "service", "host_name", "host_port", "local_port"}

PrefixOrder(r) ==
    /\ r.instance_id # None => r.profile_name # None
    /\ r.service # None => r.instance_id # None
    /\ r.host_port # None <=> r.service # None
    /\ r.local_port # None <=> r.service # None
    /\ r.host_name # None => r.service # None

CompleteOrAbort ==
    /\ [](/\ stages = SubSeq(StageOrder, 1, Len(stages))
          /\ (launched \/ printed) => stages = StageOrder
          /\ error # "none" <=> pc = "Aborted"
          /\ pc = "Aborted" => selPc = "idle")
    /\ [][pc # "Aborted"]_vars

\* the tunnel ran to its end after the six stages
CompleteOrAbortWitness ==
    /\ pc = "Done"
    /\ launched
    /\ stages = StageOrder
    /\ error = "none"

\* C10: every exit of the loop by Enter or by Escape leaves the rendered
\* region cleared when select returns.
ExitClearsRegion ==
    (selector = "TUI" /\ Returned /\ lastEvent \in {"Enter", "Esc"} /\ ~ioFailed)
        => region = "blank"

Ended == pc \in {"Aborted", "Done"}

\* C11: on every error path the terminal is back in normal mode when the
\* error is reported, and no run ends with the terminal in viewport mode.
TerminalRestored ==
    /\ error # "none" => termMode = "normal"
    /\ Ended => termMode = "normal"
    /\ termMode = "viewport" => (error = "none" /\ ~printed /\ ~launched)

\* the operator pressed Esc on a drawn list: canceled, terminal restored
TerminalRestoredWitness ==
    /\ pc = "Aborted"
    /\ error = "canceled"
    /\ region = "list"
    /\ termMode = "normal"

BadOutcome(o) == o \in {"nonzero", "missing"}

\* C12: setup fails, naming the tool, whenever a version check cannot be
\* started or exits nonzero; it advances only when both checks start and
\* exit zero; the AWS CLI is checked first.
SetupFailsOnBadTool ==
    /\ Len(stages) >= 1 => (checks.aws = "ok" /\ checks.plugin = "ok")
    /\ BadOutcome(checks.aws) =>
         (error = "aws cli is not installed" /\ checks.plugin = "none")
    /\ (checks.aws = "ok" /\ BadOutcome(checks.plugin)) =>
         error = "session-manager-plugin is not installed"
    /\ checks.plugin # "none" => checks.aws # "none"

MenuOrder == <<"ApplicationLoadBalancer", "Redis", "Valkey", "Postgresql">>

PortsOf(svc) ==
    CASE svc = "ApplicationLoadBalancer" -> <<"443", "1443">>
      [] svc = "Postgresql" -> <<"5432", "5432">>
      [] svc = "Redis" -> <<"6379", "6379">>
      [] svc = "Valkey" -> <<"6379", "6379">>

\* C13: the DestinationType stage offers exactly the four services in the
\* order ALB, Redis, Valkey, Postgresql, and a selection of index i stores
\* the i-th of them, with both ports derived from that same service.
MenuOrderStored ==
    /\ [](pc = "DestinationType" /\ selPc # "idle" => options = MenuOrder)
    /\ [][(pc = "DestinationType" /\ pc' = "Destination") =>
            LET i == Unwrap(ret)[1]
            IN /\ i \in 0..3
               /\ pf'.service = Some(MenuOrder[i + 1])
               /\ pf'.host_port = Some(PortsOf(MenuOrder[i + 1])[1])
               /\ pf'.local_port = Some(PortsOf(MenuOrder[i + 1])[2])]_vars

\* index 3 of the menu was focused and stored as Postgresql
MenuOrderStoredWitness ==
    /\ pc = "Destination"
    /\ drawn = Some(3)
    /\ pf.service = Some("Postgresql")
    /\ pf.host_port = Some("5432")

\* C14: when the tunnel subprocess is spawned the last selector call has
\* returned with its region cleared and the terminal is restored, and no
\* selector draw happens after the spawn.
ViewportReleased ==
    /\ [](launched => (region = "blank" /\ termMode = "normal" /\ selPc = "idle"))
    /\ [][launched => UNCHANGED <<region, drawn, draws, selPc>>]_vars

\* the tunnel is running on a cleared, restored terminal
ViewportReleasedWitness ==
    /\ pc = "Tunnel"
    /\ launched
    /\ region = "blank"
    /\ termMode = "normal"

\* the index that downs Down presses and ups Up presses from 0 lead to
Focus(n) == (downs + ups * (n - 1)) % n

Ignored == {"OtherKey", "Release", "NonKey"}

\* C16: an event other than a press of Enter, Up, Down or Escape leaves the
\* focus index unchanged, selects nothing and keeps the loop running.
IgnoredEventsKeepState ==
    [][(Looping /\ reads' = reads + 1 /\ lastEvent' \in Ignored) =>
         /\ index' = index
         /\ selected' = selected /\ selected' = None
         /\ ret' = None
         /\ selPc' = "loop"
         /\ options' = options]_vars

\* a key release read after one Down: the focus is still on the second item
IgnoredEventsKeepStateWitness ==
    /\ Looping
    /\ lastEvent = "Release"
    /\ downs = 1 /\ ups = 0 /\ reads = 2
    /\ index = 1

\* C17: Instance and Destination store the identifier of the option at the
\* returned index, whatever label was returned with it, also when several
\* options share a label.
IdentifierAtIndexStored ==
    /\ [][(pc = "Instance" /\ pc' = "DestinationType" /\ Unwrap(ret)[1] < Len(provided)) =>
            pf'.instance_id = Some(provided[Unwrap(ret)[1] + 1][1])]_vars
    /\ [][(pc = "Destination" /\ pc' = "Ready" /\ Unwrap(ret)[1] < Len(provided)) =>
            pf'.host_name = Some(provided[Unwrap(ret)[1] + 1][1])]_vars

\* the second of two load balancers both titled lb was chosen
IdentifierAtIndexStoredWitness ==
    /\ pc = "Ready"
    /\ pf.service = Some("ApplicationLoadBalancer")
    /\ pf.instance_id = Some("i-2")
    /\ pf.host_name = Some("b.elb")

\* the number local_port is the decimal text of, for a service
LocalPortNumber(svc) ==
    IF default_port(svc) < 1000 THEN default_port(svc) + 1000 ELSE default_port(svc)

\* C18: host_port and local_port are both absent or both set, and set exactly
\* when service is set; local_port is then within 1000..65535 and the 16-bit
\* sum default_port + 1000 does not overflow for any service.
PortsFollowService ==
    /\ (pf.host_port = None) <=> (pf.local_port = None)
    /\ (pf.host_port = None) <=> (pf.service = None)
    /\ pf.service # None =>
         /\ pf.local_port = Some(to_string(LocalPortNumber(Unwrap(pf.service))))
         /\ LocalPortNumber(Unwrap(pf.service)) \in 1000..65535
    /\ \A svc \in ServiceKinds : default_port(svc) + 1000 = U16(default_port(svc) + 1000)

\* a scripted selector went out of range at Instance, then chose the ALB
PortsFollowServiceWitness ==
    /\ selector = "Scripted"
    /\ pf.instance_id = None
    /\ pf.service = Some("ApplicationLoadBalancer")
    /\ pf.host_port = Some("443")
    /\ pf.local_port = Some("1443")

\* C19: the loop on a non-empty list ends exactly when a press of Enter or
\* Escape is read or a draw or read fails: Up, Down and ignored events never
\* end it, Enter and Escape always do, and with an operator who eventually
\* presses Enter or Escape select eventually returns.
LoopEndsOnEnterOrEsc ==
    /\ [][(Looping /\ selPc' # "loop") =>
            (ioFailed' \/ (reads' = reads + 1 /\ lastEvent' \in {"Enter", "Esc"}))]_vars
    /\ [][(Looping /\ reads' = reads + 1 /\ lastEvent' \in {"Enter", "Esc"}) =>
            selPc' = "returned"]_vars
    /\ (Looping ~> Returned)

\* the loop ran through five Up/Down/ignored events and is still running
LoopEndsOnEnterOrEscWitness ==
    /\ Looping
    /\ reads = 5
    /\ downs = 2 /\ ups = 2
    /\ lastEvent = "NonKey"

Incomplete(r) ==
    \/ r.profile_name = None
    \/ r.instance_id = None
    \/ r.host_name = None
    \/ r.host_port = None
    \/ r.local_port = None

NotSetErrors ==
    {"profile name is not set", "instance id is not set", "host name is not set",
     "host port is not set", "local port is not set"}

\* C20: run never prints the command or spawns the tunnel with one of
\* profile_name, instance_id, host_name, host_port, local_port unset: it
\* returns a "<field> is not set" error first.
RunRejectsIncomplete ==
    /\ []((printed \/ launched) => ~Incomplete(pf))
    /\ [][(pc = "Built" /\ pc' # "Built" /\ Incomplete(pf)) =>
            /\ pc' = "Aborted"
            /\ error' \in NotSetErrors
            /\ ~printed' /\ ~launched'
            /\ error' = "profile name is not set" => pf.profile_name = None
            /\ error' = "instance id is not set" => pf.instance_id = None
            /\ error' = "host name is not set" => pf.host_name = None
            /\ error' = "host port is not set" => pf.host_port = None
            /\ error' = "local port is not set" => pf.local_port = None]_vars

\* every stage and build succeeded, run stopped on the absent instance id
RunRejectsIncompleteWitness ==
    /\ pc = "Aborted"
    /\ stages = StageOrder
    /\ error = "instance id is not set"
    /\ pf.instance_id = None
    /\ ~printed /\ ~launched

====
